---- MODULE Spec2Model ----
(***************************************************************************)
(* Model of src/idx.py: the FastAPI endpoint that resolves a parcel number *)
(* (APN) from the local SQLite store and, on a miss, falls back to a       *)
(* Browserbase/Playwright scrape of the LADBS atlas.                       *)
(*                                                                         *)
(* Every request is one coroutine of the event loop.  A request's steps    *)
(* are the code between two suspension points (awaits) or external calls;  *)
(* the steps of different requests interleave.  Every external call        *)
(* (SQLite, the session broker, Playwright) either succeeds or raises, and *)
(* the choice is made by the environment.                                  *)
(***************************************************************************)
EXTENDS Integers, Sequences, FiniteSets, TLC

\* ------------------------------------------------------------------ bounds
\* The requests in flight (each one invocation of the endpoint).
Requests == {"r1", "r2"}

\* Largest number of strings configured in get_random_user_agent's list
\* (the list is empty in the source as shipped).
MaxUserAgents == 1

\* ------------------------------------------------------------- input data
\* Identifiers a caller may send, and the AINs of table final_combined.
APNs == {"1234-001-002", "5555-010-020"}
Store == {"5555-010-020"}

\* HTTP status codes the session broker may answer with.
Statuses == {200, 201, 204, 500}

\* Bodies the broker may answer with: a JSON object holding connectUrl, a
\* JSON object without it, the empty JSON object, and text that is not JSON.
Bodies == {"with_connectUrl", "without_connectUrl", "empty_object", "not_json"}

\* Page titles, as sequences of words.
Titles == { <<"LADBS", "Atlas">>,
            <<"Service", "unavailable">>,
            <<"503", "Service", "unavailable">>,
            <<"service", "Unavailable">> }

\* A value standing for Python's None / an absent dictionary key.
None == "None"

VARIABLES
    user_agents,     \* number of strings in get_random_user_agent's list
    apn,             \* request.apn of each request
    pc,              \* where each request's coroutine stands
    parcel_data,     \* outcome of parcel_local_search: "unset", "row", None
    broker_calls,    \* requests.post calls made to the session broker
    connects,        \* successful connect_over_cdp calls
    close_calls,     \* browser.close() calls
    steps,           \* the navigation steps performed, in order
    href_cleaned,    \* the cleaned report link
    exc,             \* the exception caught by the except clause (str(e))
    pending,         \* what the try statement completes with after finally
    web_data,        \* what get_web_scraped_data returned
    response,        \* what the endpoint returned
    raised,          \* the exception that left the endpoint unhandled
    modal,           \* what the acknowledgment box did (the line printed)
    href,            \* the href attribute read from the report link
    content,         \* the page parsed by the extractor (page.content())
    screenshot_calls, \* page.screenshot calls
    screenshot_file  \* whose page error_debug_combined.png currently shows

vars == << user_agents, apn, pc, parcel_data, broker_calls, connects,
           close_calls, steps, href_cleaned, exc, pending, web_data,
           response, raised, screenshot_file, modal, href, content,
           screenshot_calls >>

\* ---------------------------------------------------------------- values
\* Python dictionaries are modelled as records with a fixed field list; the
\* field keys holds the keys the dictionary really has.
Dict(keys, error, apnv, link, zones, flood, source) ==
    [ keys |-> keys, error |-> error, apn |-> apnv, link |-> link,
      zones |-> zones, flood_hazard_zone |-> flood, source |-> source ]

NoDict == Dict({}, None, None, None, << >>, None, None)

ErrorDict(msg) == Dict({"error"}, msg, None, None, << >>, None, None)

\* web_data["source"] = "webscraper"
Tagged(d) == [ d EXCEPT !.keys = @ \cup {"source"}, !.source = "webscraper" ]

\* The tier-1 response: parcel_data, context, explanation, source.
DatabaseDict ==
    Dict({"parcel_data", "context", "explanation", "source"},
         None, None, None, << >>, None, "database")

\* What the try statement will do once the finally clause has run.
NoPending == [ kind |-> "none", value |-> NoDict, exception |-> None ]
PendingReturn(d) == [ kind |-> "return", value |-> d, exception |-> None ]
PendingRaise(e) == [ kind |-> "raise", value |-> NoDict, exception |-> e ]

\* needle occurs in hay as a run of consecutive words (Python's `in`).
Contains(hay, needle) ==
    \E i \in 0 .. (Len(hay) - Len(needle)) :
        \A j \in 1 .. Len(needle) : hay[i + j] = needle[j]

\* "Service unavailable" in await page.title()
ServiceUnavailable(title) == Contains(title, <<"Service", "unavailable">>)

\* An anchor without href: get_attribute returns None.
NoHref == << >>

\* A rendered page: whether it holds <table id="basic">, and the table's
\* rows (each the sequence of its td cells).
Page(has_table, rows) == [ has_table |-> has_table, rows |-> rows ]

\* No page read yet.
NoPage == [ has_table |-> FALSE, rows |-> <<"unread">> ]

\* ------------------------------------------------------------------ Init
Init ==
    /\ user_agents \in 0 .. MaxUserAgents
    /\ apn \in [Requests -> APNs]
    /\ pc = [r \in Requests |-> "lookup"]
    /\ parcel_data = [r \in Requests |-> "unset"]
    /\ broker_calls = [r \in Requests |-> 0]
    /\ connects = [r \in Requests |-> 0]
    /\ close_calls = [r \in Requests |-> 0]
    /\ steps = [r \in Requests |-> << >>]
    /\ href_cleaned = [r \in Requests |-> None]
    /\ exc = [r \in Requests |-> None]
    /\ pending = [r \in Requests |-> NoPending]
    /\ web_data = [r \in Requests |-> NoDict]
    /\ response = [r \in Requests |-> NoDict]
    /\ raised = [r \in Requests |-> None]
    /\ screenshot_file = None
    /\ modal = [r \in Requests |-> None]
    /\ href = [r \in Requests |-> NoHref]
    /\ content = [r \in Requests |-> NoPage]
    /\ screenshot_calls = [r \in Requests |-> 0]


\* --------------------------------------------------- how a request ends
\* An exception leaves get_parcel_details_and_explanation unhandled.
Raise(r, e) ==
    /\ raised' = [raised EXCEPT ![r] = e]
    /\ pc' = [pc EXCEPT ![r] = "done"]
    /\ UNCHANGED << web_data, response >>

\* get_web_scraped_data returns d; the endpoint tags it and returns it.
ReturnWebData(r, d) ==
    /\ web_data' = [web_data EXCEPT ![r] = d]
    /\ response' = [response EXCEPT ![r] = Tagged(d)]
    /\ pc' = [pc EXCEPT ![r] = "done"]
    /\ UNCHANGED raised

\* ------------------------------------------------------- tier 1 (local)
\* parcel_local_search with a query that matches no row.
parcel_local_search_no_match(a, db_ok) ==
    IF ~db_ok THEN [exception |-> "sqlite3.Error", value |-> None]
    ELSE [exception |-> None, value |-> None]

\* parcel_local_search: the row of final_combined with AIN = apn as a
\* dictionary, None when there is none; sqlite3 raises when db_ok is false.
parcel_local_search(a, db_ok) ==
    IF ~db_ok THEN [exception |-> "sqlite3.Error", value |-> None]
    ELSE IF a \in Store THEN [exception |-> None, value |-> "row"]
    ELSE [exception |-> None, value |-> None]

\* The endpoint with its lookup wrapped in a handler that treats a database
\* error like a miss and goes on to the scrape.
LookupSwallowsError(r) ==
    /\ pc[r] = "lookup"
    /\ \E db_ok \in BOOLEAN :
        LET res == parcel_local_search(apn[r], db_ok) IN
        /\ parcel_data' = [parcel_data EXCEPT ![r] =
               IF res.exception # None THEN "unset" ELSE res.value]
        /\ pc' = [pc EXCEPT ![r] =
               IF res.exception = None /\ res.value = "row"
               THEN "retrieve_context" ELSE "create_session"]
        /\ UNCHANGED << web_data, response, raised >>
    /\ UNCHANGED << href, content, screenshot_calls, modal, user_agents, apn, broker_calls, connects,
                    close_calls, steps, href_cleaned, exc, pending,
                    screenshot_file >>

\* `if parcel_data:` of the endpoint: a row dictionary is truthy.
Truthy(pd) == pd = "row"

\* Lines 308-310: the local lookup and the branch on its result.
Lookup(r) ==
    /\ pc[r] = "lookup"
    /\ \E db_ok \in BOOLEAN :
        LET res == parcel_local_search(apn[r], db_ok) IN
        IF res.exception # None
        THEN /\ Raise(r, res.exception)
             /\ UNCHANGED parcel_data
        ELSE /\ parcel_data' = [parcel_data EXCEPT ![r] = res.value]
             /\ pc' = [pc EXCEPT ![r] =
                    IF Truthy(res.value) THEN "retrieve_context"
                    ELSE "create_session"]
             /\ UNCHANGED << web_data, response, raised >>
    /\ UNCHANGED << href, content, screenshot_calls, modal, user_agents, apn, broker_calls, connects, close_calls,
                    steps, href_cleaned, exc, pending, screenshot_file >>

\* retrieve_context: the joined documents, "No relevant documents found."
\* or, on any exception, "Error retrieving context."; it never raises.
retrieve_context(query_ok, has_documents) ==
    IF ~query_ok THEN "Error retrieving context."
    ELSE IF has_documents THEN "documents"
    ELSE "No relevant documents found."

\* Lines 312-313.
RetrieveContext(r) ==
    /\ pc[r] = "retrieve_context"
    /\ \E query_ok \in BOOLEAN, has_documents \in BOOLEAN :
        /\ retrieve_context(query_ok, has_documents) \in
              {"documents", "No relevant documents found.",
               "Error retrieving context."}
        /\ pc' = [pc EXCEPT ![r] = "call_gemini"]
    /\ UNCHANGED << href, content, screenshot_calls, modal, user_agents, apn, parcel_data, broker_calls, connects,
                    close_calls, steps, href_cleaned, exc, pending,
                    web_data, response, raised, screenshot_file >>

\* Lines 314-321: call_gemini_flash raises or the endpoint returns the
\* tier-1 dictionary.
CallGemini(r) ==
    /\ pc[r] = "call_gemini"
    /\ \E llm_ok \in BOOLEAN :
        IF llm_ok
        THEN /\ response' = [response EXCEPT ![r] = DatabaseDict]
             /\ pc' = [pc EXCEPT ![r] = "done"]
             /\ UNCHANGED << raised, web_data >>
        ELSE Raise(r, "openai.Error")
    /\ UNCHANGED << href, content, screenshot_calls, modal, user_agents, apn, parcel_data, broker_calls, connects,
                    close_calls, steps, href_cleaned, exc, pending,
                    screenshot_file >>

\* --------------------------------------------------- session provisioner
\* The keys of the JSON object a body parses to.
BodyKeys(body) ==
    CASE body = "with_connectUrl" -> {"id", "connectUrl"}
      [] body = "without_connectUrl" -> {"id"}
      [] OTHER -> {}

NoSession == [exception |-> None, is_none |-> TRUE, keys |-> {}]

\* create_browserbase_session: requests.post raises on a network error;
\* on status 200 or 201 the parsed body is returned (response.json() raises
\* when the body is not JSON); on any other status None is returned.
create_browserbase_session(net_ok, status, body) ==
    IF ~net_ok
    THEN [NoSession EXCEPT !.exception = "ConnectionError"]
    ELSE IF status \in {200, 201}
    THEN IF body = "not_json"
         THEN [NoSession EXCEPT !.exception = "JSONDecodeError"]
         ELSE [exception |-> None, is_none |-> FALSE, keys |-> BodyKeys(body)]
    ELSE NoSession

\* `not session`: None and the empty dictionary are falsy.
NotSession(session) == session.is_none \/ session.keys = {}

\* The timeout in milliseconds each waiting call is given (Playwright's
\* default is 30000); 0 stands for none: requests.post is called without a
\* timeout argument and then waits for the broker without limit.
Timeout(call) ==
    CASE call = "requests.post" -> 0
      [] call = "goto portal" -> 60000
      [] call = "acknowledgment visible" -> 60000
      [] call = "calcite-flow-item" -> 60000
      [] call = "parcel report link" -> 60000
      [] call = "goto report" -> 90000
      [] OTHER -> 30000

\* Lines 291-296 of get_web_scraped_data, up to the await of the scrape.
\* When the broker never answers, a call with a timeout raises and a call
\* without one never returns: the request stays blocked in it.
CreateSession(r) ==
    /\ pc[r] = "create_session"
    /\ broker_calls' = [broker_calls EXCEPT ![r] = @ + 1]
    /\ \E answered \in BOOLEAN, net_ok \in BOOLEAN, status \in Statuses,
          body \in Bodies :
        LET session ==
              create_browserbase_session(answered /\ net_ok, status, body)
        IN
        IF ~answered /\ Timeout("requests.post") = 0
        THEN /\ pc' = [pc EXCEPT ![r] = "blocked"]
             /\ UNCHANGED << web_data, response, raised >>
        ELSE IF session.exception # None
        THEN Raise(r, session.exception)
        ELSE IF NotSession(session)
        THEN ReturnWebData(r, ErrorDict("Failed to create Browserbase session"))
        ELSE IF "connectUrl" \notin session.keys
        THEN Raise(r, "KeyError")
        ELSE /\ pc' = [pc EXCEPT ![r] = "connect"]
             /\ UNCHANGED << web_data, response, raised >>
    /\ UNCHANGED << href, content, screenshot_calls, modal, user_agents, apn,
                    parcel_data, connects, close_calls, steps, href_cleaned,
                    exc, pending, screenshot_file >>

\* ----------------------------------------------------- navigation driver
\* str(e) of the exception a failing step raises inside the try block.
StepMessage(step) ==
    CASE step = "LoadPortal" -> "Timeout 60000ms exceeded: goto portal"
      [] step = "LocateWidget" -> "Iframe not found."
      [] step = "Submit" -> "Timeout: search box"
      [] step = "AwaitResult" -> "Timeout 60000ms exceeded: calcite-flow-item"
      [] step = "ExtractLink" -> "Timeout 60000ms exceeded: parcel report link"
      [] step = "FollowLink" -> "Timeout 90000ms exceeded: goto report"
      [] OTHER -> "Error"

\* The step `step` of request r is performed: it is recorded in steps.
Perform(r, step) == steps' = [steps EXCEPT ![r] = Append(@, step)]

\* A try block whose handler runs the failed statement again: the exception
\* is noted and the step is retried.
CaughtRetries(r, msg) ==
    /\ exc' = [exc EXCEPT ![r] = msg]
    /\ UNCHANGED << pc, pending, web_data, response, raised >>

\* A statement of the try block raises: control goes to the except clause.
Caught(r, msg) ==
    /\ exc' = [exc EXCEPT ![r] = msg]
    /\ pc' = [pc EXCEPT ![r] = "except"]
    /\ UNCHANGED << pending, web_data, response, raised >>

\* A statement of the try block succeeds: control goes to the next step.
Goto(r, next) ==
    /\ pc' = [pc EXCEPT ![r] = next]
    /\ UNCHANGED << exc, pending, web_data, response, raised >>

\* A return statement inside the try block: the finally clause runs first.
ReturnFromTry(r, d) ==
    /\ pending' = [pending EXCEPT ![r] = PendingReturn(d)]
    /\ pc' = [pc EXCEPT ![r] = "finally"]
    /\ UNCHANGED << exc, web_data, response, raised >>

\* Line 157: connect_over_cdp, before the try block.
Connect(r) ==
    /\ pc[r] = "connect"
    /\ \E ok \in BOOLEAN :
        IF ok
        THEN /\ connects' = [connects EXCEPT ![r] = @ + 1]
             /\ pc' = [pc EXCEPT ![r] = "new_context"]
             /\ UNCHANGED << web_data, response, raised >>
        ELSE /\ Raise(r, "ConnectError")
             /\ UNCHANGED connects
    /\ UNCHANGED << href, content, screenshot_calls, modal, user_agents, apn, parcel_data, broker_calls, close_calls,
                    steps, href_cleaned, exc, pending, screenshot_file >>

\* get_random_user_agent: random.choice raises IndexError on an empty list.
get_random_user_agent(n) ==
    IF n = 0 THEN [exception |-> "IndexError", choices |-> {}]
    ELSE [exception |-> None, choices |-> 1 .. n]

\* Lines 158-161: new_context(user_agent=get_random_user_agent(), ...),
\* before the try block.
NewContext(r) ==
    /\ pc[r] = "new_context"
    /\ LET ua == get_random_user_agent(user_agents) IN
       IF ua.exception # None
       THEN Raise(r, ua.exception)
       ELSE \E agent \in ua.choices, ok \in BOOLEAN :
              IF ok
              THEN /\ pc' = [pc EXCEPT ![r] = "new_page"]
                   /\ UNCHANGED << web_data, response, raised >>
              ELSE Raise(r, "NewContextError")
    /\ UNCHANGED << href, content, screenshot_calls, modal, user_agents, apn, parcel_data, broker_calls, connects,
                    close_calls, steps, href_cleaned, exc, pending,
                    screenshot_file >>

\* Line 162: context.new_page(), before the try block.
NewPage(r) ==
    /\ pc[r] = "new_page"
    /\ \E ok \in BOOLEAN :
        IF ok
        THEN /\ pc' = [pc EXCEPT ![r] = "LoadPortal"]
             /\ UNCHANGED << web_data, response, raised >>
        ELSE Raise(r, "NewPageError")
    /\ UNCHANGED << href, content, screenshot_calls, modal, user_agents, apn, parcel_data, broker_calls, connects,
                    close_calls, steps, href_cleaned, exc, pending,
                    screenshot_file >>

\* Lines 166-172: goto the portal, read the title, return the
\* service-unavailable dictionary when the title says so.
LoadPortal(r) ==
    /\ pc[r] = "LoadPortal"
    /\ Perform(r, "LoadPortal")
    /\ \E ok \in BOOLEAN, title \in Titles :
        IF ~ok THEN Caught(r, StepMessage("LoadPortal"))
        ELSE IF ServiceUnavailable(title)
        THEN ReturnFromTry(r, ErrorDict("Service unavailable"))
        ELSE Goto(r, "LocateWidget")
    /\ UNCHANGED << href, content, screenshot_calls, modal, user_agents, apn, parcel_data, broker_calls, connects,
                    close_calls, href_cleaned, screenshot_file >>

\* Lines 175-179: page.frame(url=...) is None when the iframe is absent.
LocateWidget(r) ==
    /\ pc[r] = "LocateWidget"
    /\ Perform(r, "LocateWidget")
    /\ \E found \in BOOLEAN :
        IF found THEN Goto(r, "DismissModal")
        ELSE Caught(r, StepMessage("LocateWidget"))
    /\ UNCHANGED << href, content, screenshot_calls, modal, user_agents, apn, parcel_data, broker_calls, connects,
                    close_calls, href_cleaned, screenshot_file >>

\* What the acknowledgment box may do.
ModalOutcomes == {"clicked", "never_visible", "click_failed"}

\* The acknowledgment step without its inner try/except: a failed wait or
\* click goes to the outer except clause.
AfterDismissModalFatal(outcome) ==
    IF outcome = "clicked" THEN "Submit" ELSE "except"

\* Lines 182-188: the inner try/except swallows every exception of the
\* wait and the click; the statement after it is the search box.
AfterDismissModal(outcome) == "Submit"

\* Lines 182-188: the outcome is printed, then control goes where
\* AfterDismissModal says.
DismissModal(r) ==
    /\ pc[r] = "DismissModal"
    /\ Perform(r, "DismissModal")
    /\ \E outcome \in ModalOutcomes :
        /\ modal' = [modal EXCEPT ![r] = outcome]
        /\ IF AfterDismissModal(outcome) = "Submit" THEN Goto(r, "Submit")
           ELSE Caught(r, outcome)
    /\ UNCHANGED << href, content, screenshot_calls, user_agents, apn,
                    parcel_data, broker_calls, connects, close_calls,
                    href_cleaned, screenshot_file >>

\* Lines 191-196: fill the search box, press Enter, random_delay().
Submit(r) ==
    /\ pc[r] = "Submit"
    /\ Perform(r, "Submit")
    /\ \E ok \in BOOLEAN :
        IF ok THEN Goto(r, "AwaitResult")
        ELSE Caught(r, StepMessage("Submit"))
    /\ UNCHANGED << href, content, screenshot_calls, modal, user_agents, apn, parcel_data, broker_calls, connects,
                    close_calls, href_cleaned, screenshot_file >>

\* Lines 199-203: wait attached, scroll into view, wait visible.
AwaitResult(r) ==
    /\ pc[r] = "AwaitResult"
    /\ Perform(r, "AwaitResult")
    /\ \E ok \in BOOLEAN :
        IF ok THEN Goto(r, "ExtractLink")
        ELSE Caught(r, StepMessage("AwaitResult"))
    /\ UNCHANGED << href, content, screenshot_calls, modal, user_agents, apn, parcel_data, broker_calls, connects,
                    close_calls, href_cleaned, screenshot_file >>


\* Texts (hrefs, cell texts) are sequences of tokens; these tokens are the
\* whitespace characters.
Space == " "
Whitespace == {" ", "\t", "\n"}

\* The href values the portal may emit.
Hrefs == { <<"https://x", "Parcel", "ProfileDetail2">>,
           <<"https://x", " ", "Parcel", " ", "ProfileDetail2">>,
           <<"https://x", "\t", "Parcel", "ProfileDetail2">>,
           NoHref }

\* href.replace(" ", "", 1): only the first space character is removed.
RemoveFirstSpace(text) ==
    LET spaces == { i \in 1 .. Len(text) : text[i] = Space } IN
    IF spaces = {} THEN text
    ELSE LET first == CHOOSE i \in spaces : \A k \in spaces : i <= k IN
         SubSeq(text, 1, first - 1) \o SubSeq(text, first + 1, Len(text))

\* href.replace(" ", ""): every space character is removed.
RemoveSpaces(text) == SelectSeq(text, LAMBDA t : t # Space)

\* Lines 206-214: wait for the report link, read and clean its href.
ExtractLink(r) ==
    /\ pc[r] = "ExtractLink"
    /\ Perform(r, "ExtractLink")
    /\ \E ok \in BOOLEAN, h \in Hrefs :
        IF ~ok
        THEN /\ Caught(r, StepMessage("ExtractLink"))
             /\ UNCHANGED << href, href_cleaned >>
        ELSE /\ href' = [href EXCEPT ![r] = h]
             /\ IF h = NoHref
                THEN /\ Caught(r, "'NoneType' object has no attribute 'replace'")
                     /\ UNCHANGED href_cleaned
                ELSE /\ href_cleaned' =
                            [href_cleaned EXCEPT ![r] = RemoveSpaces(h)]
                     /\ Goto(r, "FollowLink")
    /\ UNCHANGED << content, screenshot_calls, modal, user_agents, apn,
                    parcel_data, broker_calls, connects, close_calls,
                    screenshot_file >>

\* Lines 217-223: goto the cleaned link, read the title, wait for
\* network idle.
FollowLink(r) ==
    /\ pc[r] = "FollowLink"
    /\ Perform(r, "FollowLink")
    /\ \E ok \in BOOLEAN :
        IF ok THEN Goto(r, "Extract")
        ELSE Caught(r, StepMessage("FollowLink"))
    /\ UNCHANGED << href, content, screenshot_calls, modal, user_agents, apn, parcel_data, broker_calls, connects,
                    close_calls, href_cleaned, screenshot_file >>

\* --------------------------------------------------- structured extractor
\* A td cell: its text and its rowspan attribute (absent, an integer, or
\* text that int() rejects).
Td(text) == [ text |-> text, has_rowspan |-> FALSE, rowspan_is_int |-> TRUE,
              rowspan |-> 1 ]
TdSpan(text, n) == [ Td(text) EXCEPT !.has_rowspan = TRUE, !.rowspan = n ]
TdBadSpan(text) == [ Td(text) EXCEPT !.has_rowspan = TRUE,
                                     !.rowspan_is_int = FALSE ]

ZoneLabel == <<"Zone(s):">>
FloodLabel == <<"Flood Hazard Zone:">>

\* The pages the report link may render.
Pages == {
    \* rowspan=3 and three rows holding A1-1, A2-4, RD1.5; a flood row
    Page(TRUE, << << TdSpan(ZoneLabel, 3), Td(<<" ", "A1-1", " ">>) >>,
                  << Td(<<"A2-4">>) >>,
                  << Td(<<"RD1.5">>) >>,
                  << Td(FloodLabel), Td(<<"X">>) >> >>),
    \* no rowspan attribute, one data cell, no flood label
    Page(TRUE, << << Td(ZoneLabel), Td(<<"C2">>) >> >>),
    \* no zone label; the flood label is the last cell of its row
    Page(TRUE, << << Td(<<"Address">>), Td(<<"1", " ", "Main">>) >>,
                  << Td(FloodLabel) >> >>),
    \* rowspan=3 but only one row follows the label row
    Page(TRUE, << << TdSpan(ZoneLabel, 3), Td(<<"R1">>) >>,
                  << Td(<<"R2">>) >> >>),
    \* rowspan=3 and no row follows the label row
    Page(TRUE, << << TdSpan(ZoneLabel, 3), Td(<<"R1">>) >> >>),
    \* rowspan=2 and no row follows the label row
    Page(TRUE, << << TdSpan(ZoneLabel, 2), Td(<<"R1">>) >> >>),
    \* rowspan=2, the row that follows holds no td
    Page(TRUE, << << TdSpan(ZoneLabel, 2), Td(<<"R1">>) >>,
                  << >> >>),
    \* rowspan=0
    Page(TRUE, << << TdSpan(ZoneLabel, 0), Td(<<"R1">>) >>,
                  << Td(<<"R2">>) >> >>),
    \* a rowspan that is not an integer
    Page(TRUE, << << TdBadSpan(ZoneLabel), Td(<<"R1">>) >> >>),
    \* the label cell is the only cell of its row
    Page(TRUE, << << Td(ZoneLabel) >> >>),
    \* rowspan=2 with its row; the flood label is the last cell of its row
    Page(TRUE, << << TdSpan(ZoneLabel, 2), Td(<<"R1">>) >>,
                  << Td(<<"R2">>) >>,
                  << Td(FloodLabel) >> >>),
    \* no table with id basic
    Page(FALSE, << >>) }

\* get_text(strip=True): leading and trailing whitespace removed.
Strip(text) ==
    LET solid == { i \in 1 .. Len(text) : text[i] \notin Whitespace } IN
    IF solid = {} THEN << >>
    ELSE SubSeq(text, CHOOSE i \in solid : \A k \in solid : i <= k,
                      CHOOSE j \in solid : \A k \in solid : k <= j)

\* The positions <<row, column>> of the td cells whose text contains label.
Labelled(rows, label) ==
    { p \in UNION { { <<i, j>> : j \in 1 .. Len(rows[i]) } :
                    i \in 1 .. Len(rows) } :
        Contains(rows[p[1]][p[2]].text, label) }

\* The first of a set of positions in document order.
FirstOf(ps) ==
    CHOOSE p \in ps : \A q \in ps :
        p[1] < q[1] \/ (p[1] = q[1] /\ p[2] <= q[2])

\* Lines 248-253: the loop over the following rows.  cur is the index of
\* current_row, 0 when current_row is None; find_next_sibling on None
\* raises AttributeError.
RECURSIVE WalkRows(_, _, _, _)
WalkRows(rows, cur, remaining, zones) ==
    IF remaining <= 0 THEN [ exception |-> None, zones |-> zones ]
    ELSE IF cur = 0
    THEN [ exception |->
             "'NoneType' object has no attribute 'find_next_sibling'",
           zones |-> zones ]
    ELSE LET next == IF cur < Len(rows) THEN cur + 1 ELSE 0 IN
         IF next # 0 /\ Len(rows[next]) > 0
         THEN WalkRows(rows, next, remaining - 1,
                       Append(zones, Strip(rows[next][1].text)))
         ELSE WalkRows(rows, next, remaining - 1, zones)

\* The zone list with the loop written `for _ in range(rowspan)`: one row
\* too many is walked.
ExtractZonesWalksOneMore(rows) ==
    LET cells == Labelled(rows, ZoneLabel) IN
    IF cells = {} THEN [ exception |-> None, zones |-> << >> ]
    ELSE LET p == FirstOf(cells)
             zone_cell == rows[p[1]][p[2]]
             row == rows[p[1]]
         IN  IF ~zone_cell.rowspan_is_int
             THEN [ exception |-> "invalid literal for int()",
                    zones |-> << >> ]
             ELSE WalkRows(rows, p[1], zone_cell.rowspan,
                           << Strip(row[Len(row)].text) >>)

\* Lines 235-253: the zone list of the table.
ExtractZones(rows) ==
    LET cells == Labelled(rows, ZoneLabel) IN
    IF cells = {} THEN [ exception |-> None, zones |-> << >> ]
    ELSE LET p == FirstOf(cells)
             zone_cell == rows[p[1]][p[2]]
             row == rows[p[1]]
         IN  IF ~zone_cell.rowspan_is_int
             THEN [ exception |-> "invalid literal for int()",
                    zones |-> << >> ]
             ELSE WalkRows(rows, p[1], zone_cell.rowspan - 1,
                           << Strip(row[Len(row)].text) >>)

\* Lines 258-267: the flood hazard zone of the table.
ExtractFlood(rows) ==
    LET cells == Labelled(rows, FloodLabel) IN
    IF cells = {} THEN [ exception |-> None, flood |-> <<"Not Found">> ]
    ELSE LET p == FirstOf(cells) IN
         IF p[2] < Len(rows[p[1]])
         THEN [ exception |-> None,
                flood |-> Strip(rows[p[1]][p[2] + 1].text) ]
         ELSE [ exception |-> "'NoneType' object has no attribute 'get_text'",
                flood |-> << >> ]

\* Lines 226-277: the outcome of extraction on a page for request r: the
\* exception raised (None when none) and the result dictionary.
ExtractPage(a, link, page) ==
    IF ~page.has_table
    THEN [ exception |-> "Table with id 'basic' not found", result |-> NoDict ]
    ELSE LET z == ExtractZones(page.rows)
             f == ExtractFlood(page.rows)
         IN  IF z.exception # None
             THEN [ exception |-> z.exception, result |-> NoDict ]
             ELSE IF f.exception # None
             THEN [ exception |-> f.exception, result |-> NoDict ]
             ELSE [ exception |-> None,
                    result |-> Dict({"apn", "link", "zones",
                                     "flood_hazard_zone"},
                                    None, a, link, z.zones, f.flood, None) ]

\* Lines 226-277: page.content(), the parse and the extraction.
Extract(r) ==
    /\ pc[r] = "Extract"
    /\ Perform(r, "Extract")
    /\ \E ok \in BOOLEAN, page \in Pages :
        LET out == ExtractPage(apn[r], href_cleaned[r], page) IN
        IF ~ok
        THEN /\ Caught(r, "Error: page.content")
             /\ UNCHANGED content
        ELSE /\ content' = [content EXCEPT ![r] = page]
             /\ IF out.exception # None THEN Caught(r, out.exception)
                ELSE ReturnFromTry(r, out.result)
    /\ UNCHANGED << href, screenshot_calls, modal, user_agents, apn,
                    parcel_data, broker_calls, connects, close_calls,
                    href_cleaned, screenshot_file >>

\* ---------------------------------------------- except and finally clauses
\* Lines 279-283: the screenshot, then `return {"error": str(e)}`.  An
\* exception of page.screenshot replaces the return.
Except(r) ==
    /\ pc[r] = "except"
    /\ screenshot_calls' = [screenshot_calls EXCEPT ![r] = @ + 1]
    /\ \E shot_ok \in BOOLEAN :
        IF shot_ok
        THEN /\ screenshot_file' = r
             /\ pending' = [pending EXCEPT ![r] =
                              PendingReturn(ErrorDict(exc[r]))]
        ELSE /\ pending' = [pending EXCEPT ![r] =
                              PendingRaise("ScreenshotError")]
             /\ UNCHANGED screenshot_file
    /\ pc' = [pc EXCEPT ![r] = "finally"]
    /\ UNCHANGED << href, content, modal, user_agents, apn, parcel_data,
                    broker_calls, connects, close_calls, steps, href_cleaned,
                    exc, web_data, response, raised >>

\* Lines 285-286 and 297-298, 328-329: browser.close(), then the pending
\* return or raise; an exception of browser.close() replaces both.
Finally(r) ==
    /\ pc[r] = "finally"
    /\ close_calls' = [close_calls EXCEPT ![r] = @ + 1]
    /\ \E close_ok \in BOOLEAN :
        IF ~close_ok THEN Raise(r, "CloseError")
        ELSE IF pending[r].kind = "return"
        THEN ReturnWebData(r, pending[r].value)
        ELSE Raise(r, pending[r].exception)
    /\ UNCHANGED << href, content, screenshot_calls, modal, user_agents, apn, parcel_data, broker_calls, connects,
                    steps, href_cleaned, exc, pending, screenshot_file >>

\* ------------------------------------------------------------------ Next
Next ==
    \E r \in Requests :
        \/ Lookup(r)
        \/ RetrieveContext(r)
        \/ CallGemini(r)
        \/ CreateSession(r)
        \/ Connect(r)
        \/ NewContext(r)
        \/ NewPage(r)
        \/ LoadPortal(r)
        \/ LocateWidget(r)
        \/ DismissModal(r)
        \/ Submit(r)
        \/ AwaitResult(r)
        \/ ExtractLink(r)
        \/ FollowLink(r)
        \/ Extract(r)
        \/ Except(r)
        \/ Finally(r)

Spec == Init /\ [][Next]_vars


\* =================================================================== claims
Done(r) == pc[r] = "done"

\* The local lookup of r completed and returned None (a miss).
Miss(r) == parcel_data[r] = None

\* get_web_scraped_data / the endpoint returned a dictionary.
Returned(r) == Done(r) /\ raised[r] = None

IsFailure(d) == d.keys = {"error"}
IsRecord(d) == d.keys = {"apn", "link", "zones", "flood_hazard_zone"}

\* C1: for every request that missed the local store and has ended, exactly
\* one session-creation call was made, and (read for the invocations that
\* connected a browser, since a failed provisioning or connect opens none)
\* exactly one browser.close() was called, whichever step failed.
C1_OneSessionOneClose ==
    \A r \in Requests :
        (Done(r) /\ Miss(r)) =>
            /\ broker_calls[r] = 1
            /\ (connects[r] > 0 => close_calls[r] = 1)

\* C2: whenever scrape_and_extract_zones has returned or raised, a browser
\* that was connected has been closed.
C2_NoBrowserLeftOpen ==
    \A r \in Requests :
        (Done(r) /\ connects[r] = 1) => close_calls[r] >= 1

\* C3: every invocation of get_web_scraped_data that has ended produced
\* exactly one of a zoning record or a failure dictionary, and no exception
\* left it.
C3_RecordOrFailure ==
    \A r \in Requests :
        (Done(r) /\ Miss(r)) =>
            /\ raised[r] = None
            /\ (IsRecord(web_data[r]) \/ IsFailure(web_data[r]))

\* C4: when a step failed (the except clause ran) and the screenshot itself
\* failed, the caller still gets a failure dictionary carrying the step's
\* own message.
C4_ScreenshotFailureKeepsError ==
    \A r \in Requests :
        (Done(r) /\ exc[r] # None /\ pending[r].exception = "ScreenshotError")
            => /\ Returned(r)
               /\ IsFailure(web_data[r])
               /\ web_data[r].error = exc[r]

\* C5: when the table with id basic is missing after FollowLink succeeded,
\* browser.close() is called exactly once and a failure dictionary is
\* returned.
C5_ExtractorFailureClosesOnce ==
    \A r \in Requests :
        (Done(r) /\ exc[r] = "Table with id 'basic' not found") =>
            /\ close_calls[r] = 1
            /\ Returned(r)
            /\ IsFailure(web_data[r])

\* C6: for a request whose identifier is in the local store the fallback is
\* never attempted: no broker call, no browser connection, no navigation
\* step, and a response, once returned, is tagged source "database".
C6_TierOneExclusive ==
    \A r \in Requests :
        apn[r] \in Store =>
            /\ broker_calls[r] = 0
            /\ connects[r] = 0
            /\ steps[r] = << >>
            /\ pc[r] \in {"lookup", "retrieve_context", "call_gemini", "done"}
            /\ (Returned(r) => response[r].source = "database")

C6_Witness ==
    \E r \in Requests :
        /\ apn[r] \in Store
        /\ Returned(r)
        /\ response[r].source = "database"
        /\ broker_calls[r] = 0

\* C7: a scrape (a broker call, and every later position of the fallback)
\* happens only after the local lookup completed with a miss; when the
\* lookup raised, the exception leaves the endpoint and no broker call, no
\* browser connection and no response is made.
C7_FallbackOnlyOnMiss ==
    \A r \in Requests :
        /\ (broker_calls[r] > 0 \/ pc[r] = "create_session") => Miss(r)
        /\ raised[r] = "sqlite3.Error" =>
              /\ Done(r)
              /\ broker_calls[r] = 0
              /\ connects[r] = 0
              /\ response[r] = NoDict

C7_Witness ==
    /\ \E r \in Requests :
          /\ raised[r] = "sqlite3.Error"
          /\ Done(r)
          /\ broker_calls[r] = 0
    /\ \E r \in Requests : Miss(r) /\ broker_calls[r] = 1

\* C8: when provisioning fails (the request ends in the step that called
\* the broker), a failure dictionary is returned, no browser was connected,
\* no navigation step ran and the broker was called once.
C8_ProvisionFailureReturnsFailure ==
    [][ \A r \in Requests :
          (pc[r] = "create_session" /\ pc'[r] = "done") =>
              /\ raised'[r] = None
              /\ IsFailure(web_data'[r])
              /\ connects'[r] = 0
              /\ steps'[r] = << >>
              /\ broker_calls'[r] = 1 ]_vars

\* C9: DismissModal is not fatal: whatever the acknowledgment box did, the
\* step performed right after DismissModal is Submit (or the request stands
\* at Submit), and no failure carries an exception of the box.
C9_DismissModalNotFatal ==
    \A r \in Requests :
        /\ exc[r] \notin ModalOutcomes
        /\ \A i \in 1 .. Len(steps[r]) :
              steps[r][i] = "DismissModal" =>
                  /\ modal[r] \in ModalOutcomes
                  /\ IF i < Len(steps[r])
                     THEN steps[r][i + 1] = "Submit"
                     ELSE pc[r] = "Submit"

C9_Witness ==
    \E r \in Requests :
        /\ modal[r] = "click_failed"
        /\ Returned(r)
        /\ IsRecord(web_data[r])
        /\ \E i \in 1 .. Len(steps[r]) - 1 :
              steps[r][i] = "DismissModal" /\ steps[r][i + 1] = "Submit"

\* C10: when the portal title says service unavailable, the request ends
\* with the failure dictionary "Service unavailable", LoadPortal is the only
\* step performed, the broker was called once and the browser closed once.
C10_ServiceUnavailableTerminates ==
    \A r \in Requests :
        (Done(r) /\ pending[r].value.error = "Service unavailable") =>
            /\ Returned(r)
            /\ web_data[r] = ErrorDict("Service unavailable")
            /\ steps[r] = <<"LoadPortal">>
            /\ broker_calls[r] = 1
            /\ close_calls[r] = 1

\* A navigation or extraction step of r failed: an exception reached the
\* except clause, or the service-unavailable dictionary is being returned.
NavFailure(r) ==
    \/ exc[r] # None
    \/ pending[r].value.error = "Service unavailable"

\* C11: on every navigation or extraction failure after the browser is
\* connected, the service-unavailable condition included, page.screenshot
\* has been called by the time browser.close() is called.
C11_ScreenshotBeforeClose ==
    \A r \in Requests :
        (connects[r] > 0 /\ NavFailure(r) /\ close_calls[r] >= 1) =>
            screenshot_calls[r] >= 1

\* The extractor of r has parsed a page holding the table.
Parsed(r) == content[r] # NoPage /\ content[r].has_table

HasZoneLabel(rows) == Labelled(rows, ZoneLabel) # {}
ZoneRow(rows) == FirstOf(Labelled(rows, ZoneLabel))[1]
ZoneCell(rows) ==
    rows[ZoneRow(rows)][FirstOf(Labelled(rows, ZoneLabel))[2]]

\* The label cell of rows has an integer rowspan (1 when absent).
IntegerRowspan(rows) == HasZoneLabel(rows) /\ ZoneCell(rows).rowspan_is_int

\* The zone list the specification describes for a label of rowspan n: the
\* last cell of the label's row, then the first cell of each of the next
\* n - 1 rows.
SpecZones(rows, n) ==
    LET i == ZoneRow(rows) IN
    [ k \in 1 .. n |->
        IF k = 1 THEN Strip(rows[i][Len(rows[i])].text)
        ELSE Strip(rows[i + k - 1][1].text) ]

\* The label row is followed by at least n - 1 rows, each holding a td.
RowsFollow(rows, n) ==
    /\ ZoneRow(rows) + n - 1 <= Len(rows)
    /\ \A k \in 1 .. n - 1 : Len(rows[ZoneRow(rows) + k]) > 0

\* The extraction of r succeeded with the zone list zs.
ExtractedZones(r, zs) ==
    /\ exc[r] = None
    /\ pending[r].kind = "return"
    /\ IsRecord(pending[r].value)
    /\ pending[r].value.zones = zs

\* C12: for a parsed table whose label cell has rowspan N >= 1 and is
\* followed by at least N - 1 rows (each with a cell), the extractor returns
\* exactly the N zones of the specification, in document order.
C12_RowspanReconstruction ==
    \A r \in Requests :
        LET rows == content[r].rows IN
        (/\ Parsed(r)
         /\ IntegerRowspan(rows)
         /\ ZoneCell(rows).rowspan >= 1
         /\ RowsFollow(rows, ZoneCell(rows).rowspan))
        => ExtractedZones(r, SpecZones(rows, ZoneCell(rows).rowspan))

\* C13: the flood hazard field never blocks the zone list: for every parsed
\* table whose zone reconstruction raises nothing, whether the flood label
\* is absent or present (with or without a next sibling cell), the
\* extraction succeeds with the reconstructed zones, and the flood value is
\* "Not Found" when the label is absent.
C13_FloodNeverBlocksZones ==
    \A r \in Requests :
        LET rows == content[r].rows IN
        (Parsed(r) /\ ExtractZones(rows).exception = None) =>
            /\ ExtractedZones(r, ExtractZones(rows).zones)
            /\ Labelled(rows, FloodLabel) = {} =>
                  pending[r].value.flood_hazard_zone = <<"Not Found">>

\* text without its space characters, character by character.
RECURSIVE WithoutSpaces(_)
WithoutSpaces(text) ==
    IF text = << >> THEN << >>
    ELSE IF Head(text) = Space THEN WithoutSpaces(Tail(text))
    ELSE << Head(text) >> \o WithoutSpaces(Tail(text))

\* The link of r was read (the anchor had an href).
LinkRead(r) == href[r] # NoHref

\* C14 as stated: the cleaned link holds no whitespace character at all and
\* is the link field of the success result.
C14_NoWhitespaceInLink ==
    \A r \in Requests :
        LinkRead(r) =>
            /\ \A i \in 1 .. Len(href_cleaned[r]) :
                  href_cleaned[r][i] \notin Whitespace
            /\ (Returned(r) /\ IsRecord(web_data[r])) =>
                  web_data[r].link = href_cleaned[r]

\* C14 amended: the cleaned link is the href read in ExtractLink with every
\* space character removed (other whitespace is kept), it holds no space
\* character, and it is the link field of the success result.
C14_SpacesRemovedFromLink ==
    \A r \in Requests :
        LinkRead(r) =>
            /\ href_cleaned[r] = WithoutSpaces(href[r])
            /\ \A i \in 1 .. Len(href_cleaned[r]) : href_cleaned[r][i] # Space
            /\ (Returned(r) /\ IsRecord(web_data[r])) =>
                  web_data[r].link = href_cleaned[r]

C14_Witness ==
    \E r \in Requests :
        /\ Returned(r)
        /\ IsRecord(web_data[r])
        /\ Cardinality({ i \in 1 .. Len(href[r]) : href[r][i] = Space }) = 2
        /\ web_data[r].link = WithoutSpaces(href[r])
        /\ "FollowLink" \in { steps[r][i] : i \in 1 .. Len(steps[r]) }

\* The except clause of r wrote its screenshot to error_debug_combined.png.
WroteScreenshot(r) ==
    /\ exc[r] # None
    /\ pc[r] \in {"finally", "done"}
    /\ pending[r].kind = "return"

\* C15: concurrent invocations are independent: each makes its own broker
\* call and connects its own browser at most once, closes only its own
\* browser, and the diagnostic artifact an invocation wrote still shows its
\* own page whatever the other invocations do.
C15_ConcurrentInvocationsIndependent ==
    \A r \in Requests :
        /\ broker_calls[r] <= 1
        /\ connects[r] <= broker_calls[r]
        /\ close_calls[r] <= connects[r]
        /\ WroteScreenshot(r) => screenshot_file = r

\* The order of the navigation steps and the extraction.
AllSteps == << "LoadPortal", "LocateWidget", "DismissModal", "Submit",
               "AwaitResult", "ExtractLink", "FollowLink", "Extract" >>

IsPrefix(s, t) == Len(s) <= Len(t) /\ SubSeq(t, 1, Len(s)) = s

\* The steps whose failure is a timeout or a missing element with a
\* message of its own.
NamedFailures == { "LoadPortal", "LocateWidget", "Submit", "AwaitResult",
                   "ExtractLink", "FollowLink" }

\* C16: the steps run in the order of AllSteps, each at most once; a
\* request standing at a step has performed exactly the steps before it;
\* once a step has failed the request stands in the except clause or
\* after it, the failed step is the last one performed (none is retried,
\* none follows) and it is not DismissModal; a zoning record is returned
\* only after every step and the extraction were performed.
C16_StepsInOrderOnce ==
    \A r \in Requests :
        /\ IsPrefix(steps[r], AllSteps)
        /\ \A i \in 1 .. Len(AllSteps) :
              pc[r] = AllSteps[i] => Len(steps[r]) = i - 1
        /\ exc[r] # None =>
              /\ pc[r] \in {"except", "finally", "done"}
              /\ steps[r] # << >>
              /\ steps[r][Len(steps[r])] # "DismissModal"
              /\ \A step \in NamedFailures :
                    exc[r] = StepMessage(step) =>
                        steps[r][Len(steps[r])] = step
        /\ (IsRecord(web_data[r]) \/ IsRecord(pending[r].value)) =>
              steps[r] = AllSteps

C16_Witness ==
    /\ \E r \in Requests :
          /\ Returned(r)
          /\ IsRecord(web_data[r])
          /\ steps[r] = AllSteps
    /\ \E r \in Requests :
          /\ Done(r)
          /\ exc[r] = StepMessage("AwaitResult")
          /\ steps[r] = SubSeq(AllSteps, 1, 5)

\* The stripped first-cell texts of the rows from index i on that hold a td.
RECURSIVE FirstCellsFrom(_, _)
FirstCellsFrom(rows, i) ==
    IF i > Len(rows) THEN << >>
    ELSE IF Len(rows[i]) = 0 THEN FirstCellsFrom(rows, i + 1)
    ELSE << Strip(rows[i][1].text) >> \o FirstCellsFrom(rows, i + 1)

\* The partial zone list of a table whose sibling rows run out: the zone of
\* the label's row, then the zones of the rows that do exist.
PartialZones(rows) ==
    LET i == ZoneRow(rows) IN
    << Strip(rows[i][Len(rows[i])].text) >> \o FirstCellsFrom(rows, i + 1)

\* C17: markup gaps degrade to partial or empty zone lists, not errors: for
\* a parsed table (whose flood field raises nothing), a label of rowspan N
\* with fewer than N - 1 rows after it yields the zones collected so far,
\* and a table without the label yields the empty list; both succeed.
C17_GapsDegradeGracefully ==
    \A r \in Requests :
        LET rows == content[r].rows IN
        (Parsed(r) /\ ExtractFlood(rows).exception = None) =>
            /\ ~HasZoneLabel(rows) => ExtractedZones(r, << >>)
            /\ (/\ IntegerRowspan(rows)
                /\ ZoneRow(rows) + ZoneCell(rows).rowspan - 1 > Len(rows))
               => ExtractedZones(r, PartialZones(rows))

\* The request r is inside a call that will never return.
WaitsForever(r) == pc[r] = "blocked"

\* C18: every waiting step is bounded by a timeout, the session-broker
\* request included, so no invocation waits forever.
C18_NoInvocationWaitsForever ==
    \A r \in Requests : ~WaitsForever(r)

\* C19: every failure dictionary returned along the fallback path carries
\* the identifier of the invocation and an error message, and the
\* endpoint's response for it is tagged source "webscraper".
C19_FailureCarriesIdentifier ==
    \A r \in Requests :
        (Returned(r) /\ "error" \in web_data[r].keys) =>
            /\ web_data[r].error # None
            /\ "apn" \in web_data[r].keys
            /\ web_data[r].apn = apn[r]
            /\ response[r].source = "webscraper"

Max(a, b) == IF a >= b THEN a ELSE b

\* The zoning record r's extraction produced (before and after the return).
ProducedRecords(r) ==
    { d \in {pending[r].value, web_data[r]} : IsRecord(d) }

\* C20: in every success result for a table whose label cell is present
\* with an integer rowspan N, the zone list holds at least 1 and at most
\* max(1, N) entries.
C20_ZoneCountBounded ==
    \A r \in Requests :
        \A d \in ProducedRecords(r) :
            IntegerRowspan(content[r].rows) =>
                /\ Len(d.zones) >= 1
                /\ Len(d.zones) <= Max(1, ZoneCell(content[r].rows).rowspan)

C20_Witness ==
    \E r \in Requests :
        /\ Returned(r)
        /\ IsRecord(web_data[r])
        /\ IntegerRowspan(content[r].rows)
        /\ ZoneCell(content[r].rows).rowspan = 3
        /\ Len(web_data[r].zones) = 3

====
